---- MODULE Spec2Model ----
(***************************************************************************)
(* Model of the spaced-repetition engine of the problem tracker            *)
(* (utils/srs.ts: update engine and due-today selection).                  *)
(*                                                                         *)
(* Timestamps are modelled at calendar-day granularity (an integer day     *)
(* number): every comparison the engine makes on a date first truncates it *)
(* to local midnight (setHours(0, 0, 0, 0)).  The ease factor is kept in   *)
(* hundredths (2.5 is 250), so the update formula                          *)
(*   0.1 - (5 - q) * (0.08 + (5 - q) * 0.02)                               *)
(* is the integer 10 - (5 - q) * (8 + (5 - q) * 2).  The source computes in *)
(* IEEE doubles, so its values agree with these up to rounding in the last *)
(* place (2.5 after one failure is 1.7000000000000002); the floor itself   *)
(* is exact, since a value below 1.3 is replaced by the constant 1.3.      *)
(***************************************************************************)
EXTENDS Integers, Sequences, FiniteSets

(* ---- bounds of the model ---- *)
\* problems in the collection of SpecStats
NumStats == 2
NumHook == 2
MaxSeries == 7
MaxCalls == 2
\* SpecStats loads the collection on any of the days (0 - DaysBack)..MaxDay
DaysBack == 366
\* problems in the collection of SpecClock
NumClocked == 2
\* records in an imported backup (SpecImported)
NumImported == 4
\* unattempted problems in the stored collection (SpecFresh)
NumFresh == 5
\* problems in the stored collection (Spec)
NumProblems == 4
\* days the clock may advance after the collection is loaded
MaxDay == 1
\* attempts recorded after the collection is loaded (Spec)
MaxAttempts == 1
\* attempts recorded after the problem is loaded (SpecUpdate)
MaxUpdates == 2
\* successful reviews a stored problem may already have behind it
MaxHistory == 6
\* how far outside 0..5 a caller-supplied difficultyRating may lie
RatingSlack == 1

(* ---- program constants ---- *)
MIN_EASE_FACTOR == 130
DEFAULT_EASE_FACTOR == 250
\* newInterval >= 30 marks a problem mastered
MasteryInterval == 30
\* newProblems.slice(0, 2)
NewProblemLimit == 2

Difficulty == {"Easy", "Medium", "Hard"}
Ratings == (0 - RatingSlack)..(5 + RatingSlack)

VARIABLES
    problems,       \* the collection: a sequence of Problem records
    today,          \* the clock's calendar day
    nextId,         \* source of fresh attempt identifiers
    due,            \* result of the latest getProblemsDueToday call
    dueDay,         \* the day that call was made
    returnedToday,  \* ids returned by getProblemsDueToday calls made today
    lastCall,       \* <<>> or <<the latest updateProblemWithAttempt call>>
    editingProblem, \* <<>> (null) or <<the record the edit form was opened on>>
    stats,          \* <<>> or <<the latest recorded calculateStats call>>
    storage,        \* the collection held in localStorage
    lastImport,     \* <<>> or <<the latest importFromJsonText call>>
    gate            \* the AuthGate component around the application

vars == <<problems, today, nextId, due, dueDay, returnedToday, lastCall,
          editingProblem, stats, storage, lastImport, gate>>

Max(a, b) == IF a >= b THEN a ELSE b
Min(a, b) == IF a <= b THEN a ELSE b

RECURSIVE Pow2(_)
Pow2(n) == IF n = 0 THEN 1 ELSE 2 * Pow2(n - 1)

(* ======================= update engine ======================= *)

\* mutant: 5 - difficultyRating without the clamp to 0..5
calculateQuality_NoClamp(success, difficultyRating) ==
    IF ~success THEN 0 ELSE 5 - difficultyRating

calculateQuality(success, difficultyRating) ==
    IF ~success THEN 0 ELSE Max(0, Min(5, 5 - difficultyRating))

\* mutant: the floor at MIN_EASE_FACTOR is left out
calculateNewEaseFactor_NoFloor(currentEaseFactor, quality) ==
    currentEaseFactor + (10 - (5 - quality) * (8 + (5 - quality) * 2))

\* mutant: the quadratic term is left out (0.1 - (5 - q) * 0.08)
calculateNewEaseFactor_Linear(currentEaseFactor, quality) ==
    LET newEaseFactor == currentEaseFactor + (10 - (5 - quality) * 8)
    IN  IF newEaseFactor < MIN_EASE_FACTOR THEN MIN_EASE_FACTOR ELSE newEaseFactor

\* mutant: the ease factor is also capped from above, at its default
calculateNewEaseFactor_Capped(currentEaseFactor, quality) ==
    LET newEaseFactor ==
            currentEaseFactor + (10 - (5 - quality) * (8 + (5 - quality) * 2))
    IN  IF newEaseFactor < MIN_EASE_FACTOR THEN MIN_EASE_FACTOR
        ELSE IF newEaseFactor > DEFAULT_EASE_FACTOR THEN DEFAULT_EASE_FACTOR
        ELSE newEaseFactor

calculateNewEaseFactor(currentEaseFactor, quality) ==
    LET newEaseFactor ==
            currentEaseFactor + (10 - (5 - quality) * (8 + (5 - quality) * 2))
    IN  IF newEaseFactor < MIN_EASE_FACTOR THEN MIN_EASE_FACTOR ELSE newEaseFactor

\* mutant: a failure resets the interval to 0 instead of 1
calculateNewInterval_ResetToZero(currentInterval, quality) ==
    LET success == quality > 0
    IN  IF ~success THEN 0
        ELSE IF currentInterval = 0 THEN 1
        ELSE currentInterval * 2

\* mutant: a success triples the interval
calculateNewInterval_Tripled(currentInterval, quality) ==
    LET success == quality > 0
    IN  IF ~success THEN 1
        ELSE IF currentInterval = 0 THEN 1
        ELSE currentInterval * 3

calculateNewInterval(currentInterval, quality) ==
    LET success == quality > 0
    IN  IF ~success THEN 1
        ELSE IF currentInterval = 0 THEN 1
        ELSE currentInterval * 2

\* attempts: [...problem.attempts, newAttempt]
\* mutant: the new attempt is put first
appendAttempt_Prepend(attempts, newAttempt) == <<newAttempt>> \o attempts

appendAttempt(attempts, newAttempt) == Append(attempts, newAttempt)

\* mutant: the status is derived from the interval even when already mastered
newStatusOf_IgnoresMastered(problem, newInterval) ==
    IF newInterval >= MasteryInterval THEN "mastered"
    ELSE IF problem.status = "new" THEN "learning"
    ELSE "reviewing"

\* mutant: a problem of status 'new' keeps it
newStatusOf_StaysNew(problem, newInterval) ==
    IF problem.mastered THEN "mastered"
    ELSE IF newInterval >= MasteryInterval THEN "mastered"
    ELSE IF problem.status = "new" THEN "new"
    ELSE "reviewing"

newStatusOf(problem, newInterval) ==
    IF problem.mastered THEN "mastered"
    ELSE IF newInterval >= MasteryInterval THEN "mastered"
    ELSE IF problem.status = "new" THEN "learning"
    ELSE "reviewing"

\* mastered: newInterval >= 30 || problem.mastered
\* mutant: the flag is recomputed from the interval alone
newMastered_NotSticky(problem, newInterval) == newInterval >= MasteryInterval

newMastered(problem, newInterval) ==
    (newInterval >= MasteryInterval) \/ problem.mastered

\* nextReviewDate.setDate(nextReviewDate.getDate() + newInterval)
\* mutant: the interval is not added
nextReviewDay_Now(now, newInterval) == now

nextReviewDay(now, newInterval) == now + newInterval

\* attempt is the caller's input [success, difficultyRating]; now is the clock's
\* day and newId the identifier generated for the attempt.
\* { id: ..., date: now, ...attempt }: the spread comes last, so a field of the
\* attempt object replaces the field of the same name written before it
spreadAttempt(attempt, now, newId) ==
    [id |-> IF "id" \in DOMAIN attempt THEN attempt.id ELSE newId,
     date |-> IF "date" \in DOMAIN attempt THEN attempt.date ELSE now,
     success |-> attempt.success,
     difficultyRating |-> attempt.difficultyRating]

\* The call reads the clock twice: 'now' (new Date().toISOString()) dates the
\* attempt and lastReviewed, and a second new Date() is the base of nextReviewDate.
updateProblemWithAttemptAt(problem, attempt, now, reviewBase, newId) ==
    LET quality == calculateQuality(attempt.success, attempt.difficultyRating)
        newEaseFactor == calculateNewEaseFactor(problem.easeFactor, quality)
        newInterval == calculateNewInterval(problem.interval, quality)
        nextReviewDate == nextReviewDay(reviewBase, newInterval)
        newAttempt == spreadAttempt(attempt, now, newId)
        newStatus == newStatusOf(problem, newInterval)
    IN  [problem EXCEPT
            !.attempts = appendAttempt(problem.attempts, newAttempt),
            !.easeFactor = newEaseFactor,
            !.interval = newInterval,
            !.nextReviewDate = nextReviewDate,
            !.lastReviewed = {now},
            !.status = newStatus,
            !.mastered = newMastered(problem, newInterval)]

\* a call during which the clock stays on one calendar day
updateProblemWithAttempt(problem, attempt, now, newId) ==
    updateProblemWithAttemptAt(problem, attempt, now, now, newId)

\* What the object passed as 'problem' holds when the call has returned: the result
\* is a fresh object literal and its attempts a fresh array ([...problem.attempts,
\* newAttempt]), so the input is as it was.
\* mutant: the new attempt is pushed onto the input's own array
inputAfterCall_Pushed(problem, attempt, now, newId) ==
    [problem EXCEPT
        !.attempts = Append(problem.attempts, spreadAttempt(attempt, now, newId))]

inputAfterCall(problem, attempt, now, newId) == problem

\* lastReviewed is optional in the source: {} when absent, {day} when set.
createNewProblem(id, difficulty, now) ==
    [id |-> id,
     difficulty |-> difficulty,
     status |-> "new",
     attempts |-> <<>>,
     nextReviewDate |-> now + 1,
     easeFactor |-> DEFAULT_EASE_FACTOR,
     interval |-> 0,
     lastReviewed |-> {},
     mastered |-> FALSE,
     createdAt |-> now]

(* ======================= selection engine ======================= *)

\* mutant: reviewDate < today
isDueToday_Strict(problem, now) == problem.nextReviewDate < now

isDueToday(problem, now) == problem.nextReviewDate <= now

\* mutant: every attempt counts, whatever its date
getAttemptsToday_Ever(problem, now) == Len(problem.attempts)

getAttemptsToday(problem, now) ==
    IF Len(problem.attempts) = 0 THEN 0
    ELSE Cardinality({k \in 1..Len(problem.attempts) :
                        problem.attempts[k].date = now})

isNewProblem(problem) == Len(problem.attempts) = 0

getDifficultyPriority(difficulty) ==
    CASE difficulty = "Easy" -> 1
      [] difficulty = "Medium" -> 2
      [] difficulty = "Hard" -> 3

\* mutant: the difficulties are compared the other way round
compareNewProblems_Descending(a, b, now) ==
    LET aAttemptsToday == getAttemptsToday(a, now)
        bAttemptsToday == getAttemptsToday(b, now)
    IN  IF aAttemptsToday > 0 /\ bAttemptsToday = 0 THEN 0 - 1
        ELSE IF aAttemptsToday = 0 /\ bAttemptsToday > 0 THEN 1
        ELSE getDifficultyPriority(b.difficulty) - getDifficultyPriority(a.difficulty)

\* the comparator handed to sort(): negative when a goes first
compareNewProblems(a, b, now) ==
    LET aAttemptsToday == getAttemptsToday(a, now)
        bAttemptsToday == getAttemptsToday(b, now)
    IN  IF aAttemptsToday > 0 /\ bAttemptsToday = 0 THEN 0 - 1
        ELSE IF aAttemptsToday = 0 /\ bAttemptsToday > 0 THEN 1
        ELSE getDifficultyPriority(a.difficulty) - getDifficultyPriority(b.difficulty)

\* Array.prototype.sort is stable: x goes after every element not greater than it
RECURSIVE insertStable(_, _, _)
insertStable(s, x, now) ==
    IF s = <<>> THEN <<x>>
    ELSE IF compareNewProblems(s[Len(s)], x, now) > 0
         THEN Append(insertStable(SubSeq(s, 1, Len(s) - 1), x, now), s[Len(s)])
         ELSE Append(s, x)

\* mutant: the new problems are left in collection order
sortNewProblems_Unsorted(s, now) == s

RECURSIVE sortNewProblems(_, _)
sortNewProblems(s, now) ==
    IF s = <<>> THEN <<>>
    ELSE insertStable(sortNewProblems(SubSeq(s, 1, Len(s) - 1), now), s[Len(s)], now)

\* Array.from(new Map(all.map(p => [p.id, p])).values()): one entry per id, at the
\* position of the id's first occurrence, holding the id's last record.
uniqueById(all) ==
    LET index == [k \in 1..Len(all) |-> k]
        isFirst(k) == \A j \in 1..(k - 1) : all[j].id # all[k].id
        kept == SelectSeq(index, isFirst)
        lastOf(k) == CHOOSE j \in 1..Len(all) :
                        /\ all[j].id = all[k].id
                        /\ \A m \in (j + 1)..Len(all) : all[m].id # all[k].id
    IN  [n \in 1..Len(kept) |-> all[lastOf(kept[n])]]

\* newProblems.slice(0, 2)
\* mutant: the slice is left out
selectNewProblems_All(newProblems) == newProblems

selectNewProblems(newProblems) ==
    SubSeq(newProblems, 1, Min(NewProblemLimit, Len(newProblems)))

\* allProblems: [...repeatedDueToday, ...selectedNewProblems]
\* isDueToday and getAttemptsToday each read the clock (new Date()) when called, so
\* the repeat filter reads it twice per problem, in collection order; the first
\* 'cut' of these readings fall on day 'now', the later ones on the day after.
\* For a problem without attempts getAttemptsToday returns 0 before reading the
\* clock, so the new-problem filter and the comparator do not depend on it.
dueCandidatesAt(ps, now, cut) ==
    LET notMastered(p) == ~p.mastered
        nonMastered == SelectSeq(ps, notMastered)
        dayOfRead(r) == IF r <= cut THEN now ELSE now + 1
        isRepeatedDue(k) ==
            /\ ~isNewProblem(nonMastered[k])
            /\ isDueToday(nonMastered[k], dayOfRead(2 * k - 1))
            /\ getAttemptsToday(nonMastered[k], dayOfRead(2 * k)) < 1
        repeatedIndex == SelectSeq([k \in 1..Len(nonMastered) |-> k], isRepeatedDue)
        repeatedDueToday == [n \in 1..Len(repeatedIndex) |->
                                nonMastered[repeatedIndex[n]]]
        isOpenNew(p) == isNewProblem(p) /\ getAttemptsToday(p, now) < 2
        newProblems == sortNewProblems(SelectSeq(nonMastered, isOpenNew), now)
        selectedNewProblems == selectNewProblems(newProblems)
    IN  repeatedDueToday \o selectedNewProblems

\* a call during which the clock stays on one calendar day
dueCandidates(ps, now) == dueCandidatesAt(ps, now, 2 * Len(ps))

getProblemsDueTodayAt(ps, now, cut) == uniqueById(dueCandidatesAt(ps, now, cut))

getProblemsDueToday(ps, now) == uniqueById(dueCandidates(ps, now))

\* the earlier getProblemsDueToday: problems.filter(p => !p.mastered && isDueToday(p))
getProblemsDueTodaySimple(ps, now) ==
    LET dueAndOpen(p) == ~p.mastered /\ isDueToday(p, now)
    IN  SelectSeq(ps, dueAndOpen)

getMasteredProblems(ps) ==
    LET isMastered(p) == p.mastered
    IN  SelectSeq(ps, isMastered)

Ids(ps) == {ps[k].id : k \in 1..Len(ps)}

(* ======================= statistics ======================= *)

(* Calendar days are integers; day 0 is 31 May 2024, so that the day after it
   begins a new June-to-May cycle.  Months are numbered from 0 as in the source. *)
DayZero == [year |-> 2024, month |-> 4, date |-> 31]

CalendarYears == (DayZero.year - 4)..(DayZero.year + 4)

isLeapYear(year) == (year % 4 = 0 /\ year % 100 # 0) \/ year % 400 = 0

getDaysInMonth(year, month) ==
    CASE month \in {0, 2, 4, 6, 7, 9, 11} -> 31
      [] month \in {3, 5, 8, 10} -> 30
      [] month = 1 -> IF isLeapYear(year) THEN 29 ELSE 28

getDaysInYear(year) == IF isLeapYear(year) THEN 366 ELSE 365

RECURSIVE daysBeforeMonth(_, _)
daysBeforeMonth(year, month) ==
    IF month = 0 THEN 0
    ELSE daysBeforeMonth(year, month - 1) + getDaysInMonth(year, month - 1)

\* the day number of 1 January
RECURSIVE startOfYear(_)
startOfYear(year) ==
    IF year = DayZero.year
    THEN 0 - (daysBeforeMonth(DayZero.year, DayZero.month) + DayZero.date - 1)
    ELSE IF year > DayZero.year
         THEN startOfYear(year - 1) + getDaysInYear(year - 1)
         ELSE startOfYear(year + 1) - getDaysInYear(year)

getFullYear(day) ==
    CHOOSE year \in CalendarYears :
        startOfYear(year) <= day /\ day < startOfYear(year + 1)

\* set(reference, {year, month, date}) for a date that exists in that month
setDate(year, month, date) ==
    startOfYear(year) + daysBeforeMonth(year, month) + date - 1

subDays(day, amount) == day - amount

\* mutant: a new cycle begins only on the day after 1 June
getCalendarYearStart_Late(now) ==
    LET reference == now
        juneCurrentYear == setDate(getFullYear(reference), 5, 1)
    IN  IF reference > juneCurrentYear THEN juneCurrentYear
        ELSE setDate(getFullYear(reference) - 1, 5, 1)

getCalendarYearStart(now) ==
    LET reference == now
        juneCurrentYear == setDate(getFullYear(reference), 5, 1)
    IN  IF reference >= juneCurrentYear THEN juneCurrentYear
        ELSE setDate(getFullYear(reference) - 1, 5, 1)

getCalendarYearEnd(now) ==
    LET reference == now
        juneCurrentYear == setDate(getFullYear(reference), 5, 1)
    IN  IF reference >= juneCurrentYear
        THEN setDate(getFullYear(reference) + 1, 4, 31)
        ELSE setDate(getFullYear(reference), 4, 31)

\* mutant: the window reaches back a full 365 days before today
rollingStartOf_YearAgo(rollingEnd) == subDays(rollingEnd, 365)

\* subDays(rollingEnd, 364): the last 365 days, today included
rollingStartOf(rollingEnd) == subDays(rollingEnd, 364)

\* the number of attempts of the first n problems that are dated 'day'
RECURSIVE attemptsOn(_, _, _)
attemptsOn(ps, n, day) ==
    IF n = 0 THEN 0
    ELSE attemptsOn(ps, n - 1, day)
            + Cardinality({k \in 1..Len(ps[n].attempts) : ps[n].attempts[k].date = day})

\* values: one key per day of the window that has attempts, none for the others
buildHeatmap(ps, startDate, endDate) ==
    LET attemptDays == UNION {{ps[n].attempts[k].date : k \in 1..Len(ps[n].attempts)} :
                                n \in 1..Len(ps)}
        inWindow == {day \in attemptDays : startDate <= day /\ day <= endDate}
    IN  [startDate |-> startDate,
         endDate |-> endDate,
         values |-> [day \in inWindow |-> attemptsOn(ps, Len(ps), day)]]

RECURSIVE totalEaseFactor(_, _)
totalEaseFactor(ps, n) ==
    IF n = 0 THEN 0 ELSE totalEaseFactor(ps, n - 1) + ps[n].easeFactor

\* mutant: the mean is taken without looking at the length first; an empty
\* collection then shows the default ease
averageEaseFactorOf_Unguarded(ps) ==
    IF Len(ps) > 0
    THEN (2 * totalEaseFactor(ps, Len(ps)) + Len(ps)) \div (2 * Len(ps))
    ELSE DEFAULT_EASE_FACTOR

\* Math.round(averageEaseFactor * 100) / 100, in hundredths
averageEaseFactorOf(ps) ==
    IF Len(ps) > 0
    THEN (2 * totalEaseFactor(ps, Len(ps)) + Len(ps)) \div (2 * Len(ps))
    ELSE 0

\* mutant: the accumulator starts empty, so a difficulty without problems has no key
countByDifficulty_Sparse(ps) ==
    [difficulty \in {ps[n].difficulty : n \in 1..Len(ps)} |->
        Cardinality({n \in 1..Len(ps) : ps[n].difficulty = difficulty})]

\* problems.reduce(acc[problem.difficulty]++, { Easy: 0, Medium: 0, Hard: 0 })
countByDifficulty(ps) ==
    [difficulty \in Difficulty |->
        Cardinality({n \in 1..Len(ps) : ps[n].difficulty = difficulty})]

calculateStats(ps, now) ==
    LET dueToday == getProblemsDueToday(ps, now)
        rollingEnd == now
        rollingStart == rollingStartOf(rollingEnd)
        calendarStart == getCalendarYearStart(now)
        calendarEnd == getCalendarYearEnd(now)
    IN  [totalProblems |-> Len(ps),
         problemsDueToday |-> Len(dueToday),
         masteredProblems |-> Len(getMasteredProblems(ps)),
         problemsByDifficulty |-> countByDifficulty(ps),
         averageEaseFactor |-> averageEaseFactorOf(ps),
         activityHeatmap |->
             [windowYear |-> buildHeatmap(ps, rollingStart, rollingEnd),
              calendarYear |-> buildHeatmap(ps, calendarStart, calendarEnd)]]

\* What the array passed as 'problems' holds when calculateStats and
\* getProblemsDueToday have returned: both work on arrays made by filter(), and
\* sort() is applied to such a copy, so the collection is as it was.
\* mutant: the collection itself is sorted
collectionAfterRender_Sorted(ps, now) == sortNewProblems(ps, now)

collectionAfterRender(ps, now) == ps

(* ======================= storage ======================= *)

(* localStorage holds JSON.stringify(problems).  A record is made of strings,
   numbers, booleans and arrays of such records, which JSON.parse gives back as they
   were, so the model keeps the stored text as the sequence of records it encodes;
   a missing item is loaded as []. *)
loadProblems(stored) == stored

\* updateProblem: the record at findIndex(p => p.id === updatedProblem.id), if any
updateProblemInStorage(stored, updatedProblem) ==
    LET found == {k \in 1..Len(stored) : stored[k].id = updatedProblem.id}
    IN  IF found = {} THEN stored
        ELSE LET index == CHOOSE k \in found : \A j \in found : k <= j
             IN  [stored EXCEPT ![index] = updatedProblem]

replaceProblems(stored, ps) == ps

(* The text of a backup file: json says whether JSON.parse accepts it; type is the
   kind of value it parses to; for an object, version is the kind of its version
   property ("number" stands for EXPORT_SCHEMA_VERSION, "newer" for a number
   above it) and problems its problems property (isArray, and the items if so). *)
typeofParsed(text) ==
    IF text.type \in {"null", "array", "object"} THEN "object" ELSE text.type

typeofVersion(text) ==
    IF text.version \in {"number", "newer"} THEN "number" ELSE text.version

\* mutant: only the version this program writes is accepted
isBackup_KnownVersion(text) ==
    /\ text.type # "null"
    /\ typeofParsed(text) = "object"
    /\ text.type = "object" /\ text.version = "number"
    /\ text.type = "object" /\ text.problems.isArray

\* mutant: the version is not looked at
isBackup_AnyVersion(text) ==
    /\ text.type # "null"
    /\ typeofParsed(text) = "object"
    /\ text.type = "object" /\ text.problems.isArray

\* !(!parsed || typeof parsed !== 'object' || typeof parsed.version !== 'number'
\*   || !Array.isArray(parsed.problems)); an array has neither property
isBackup(text) ==
    /\ text.type # "null"
    /\ typeofParsed(text) = "object"
    /\ text.type = "object" /\ typeofVersion(text) = "number"
    /\ text.type = "object" /\ text.problems.isArray

\* threw: the call ended by throwing; stored: the storage when it ended
importFromJsonText(text, stored) ==
    IF ~text.json THEN [threw |-> TRUE, stored |-> stored, count |-> 0]
    ELSE IF ~isBackup(text) THEN [threw |-> TRUE, stored |-> stored, count |-> 0]
    ELSE [threw |-> FALSE,
          stored |-> replaceProblems(stored, text.problems.items),
          count |-> Len(text.problems.items)]

\* JSON.stringify({ version: EXPORT_SCHEMA_VERSION, exportedAt, problems:
\* loadProblems() }, null, 2): the text of the file handleExport offers
buildExportJson(stored) ==
    [json |-> TRUE, type |-> "object", version |-> "number",
     problems |-> [isArray |-> TRUE, items |-> loadProblems(stored)]]

(* ======================= stored collections ======================= *)

\* A problem as found in storage after n successful reviews, each made on the day
\* the previous one scheduled (the first on the day of creation).
RECURSIVE Reviewed(_, _, _)
Reviewed(p, n, aid) ==
    IF n = 0 THEN p
    ELSE Reviewed(
            updateProblemWithAttempt(
                p, [success |-> TRUE, difficultyRating |-> 0],
                IF p.attempts = <<>> THEN p.createdAt ELSE p.nextReviewDate, aid),
            n - 1, aid - 1)

\* a problem created on day 'created' and reviewed n times since
StoredProblemSince(id, difficulty, n, created) ==
    Reviewed(createNewProblem(id, difficulty, created), n,
             0 - ((id - 1) * MaxHistory + 1))

\* ... created so that its next review falls on day 0, the day it is loaded.
StoredProblem(id, difficulty, n) ==
    StoredProblemSince(id, difficulty, n, 0 - (Pow2(n) - 1))

(* ======================= operations ======================= *)

AttemptInputs == [success : BOOLEAN, difficultyRating : Ratings]

\* recordAttempt: the update engine applied to problem i of the collection,
\* followed by the re-render that recomputes the due list.  The record the edit
\* form was opened on is the same object as the one in the collection, so it
\* shows whatever the call does to its input.
RecordAttempt(i, attempt) ==
    /\ problems' = [problems EXCEPT
                      ![i] = updateProblemWithAttempt(problems[i], attempt, today, nextId)]
    /\ nextId' = nextId + 1
    /\ lastCall' = <<[id |-> problems[i].id, before |-> problems[i],
                      attempt |-> attempt, day |-> today,
                      quality |-> calculateQuality(attempt.success,
                                                   attempt.difficultyRating)]>>
    /\ due' = getProblemsDueToday(problems', today)
    /\ dueDay' = today
    /\ returnedToday' = returnedToday \cup Ids(due')
    /\ editingProblem' =
          IF editingProblem # <<>> /\ editingProblem[1] = problems[i]
          THEN <<inputAfterCall(problems[i], attempt, today, nextId)>>
          ELSE editingProblem
    /\ storage' = updateProblemInStorage(
                      storage, updateProblemWithAttempt(problems[i], attempt, today, nextId))
    /\ UNCHANGED <<gate, today, stats, lastImport>>

\* any other render: getProblemsDueToday(problems) on the current collection
Render ==
    /\ due' = getProblemsDueToday(problems, today)
    /\ dueDay' = today
    /\ returnedToday' = returnedToday \cup Ids(due')
    /\ UNCHANGED <<gate, problems, today, nextId, lastCall, editingProblem, stats, storage,
                 lastImport>>

\* the clock passes midnight
Tick ==
    /\ today < MaxDay
    /\ today' = today + 1
    /\ returnedToday' = {}
    /\ UNCHANGED <<gate, problems, nextId, due, dueDay, lastCall, editingProblem, stats,
                 storage, lastImport>>

(* ---- the access gate ---- *)

\* skewSeconds of verifyJwtWithPublicKey
SkewSeconds == 60

\* isTimeClaimsValid; a claim of the payload is {} (absent) or {seconds}
isTimeClaimsValid(payload, nowSeconds, skewSeconds) ==
    /\ \A exp \in payload.exp : ~(nowSeconds - skewSeconds >= exp)
    /\ \A nbf \in payload.nbf : ~(nowSeconds + skewSeconds < nbf)
    /\ \A iat \in payload.iat : ~(iat > nowSeconds + skewSeconds)

\* verifyJwtWithPublicKey, resolved: 'subtle' says whether WebCrypto is there, the
\* token whether parseJwt succeeds, its algorithm and whether its signature
\* verifies under the key; a key that importKey refuses lands in the catch block
verifyJwtWithPublicKey(token, publicKeyPem, subtle, nowSeconds) ==
    IF ~subtle THEN FALSE
    ELSE IF ~token.parses THEN FALSE
    ELSE IF token.alg # "RS256" THEN FALSE
    ELSE IF publicKeyPem # "configured" THEN FALSE
    ELSE IF ~token.validSig THEN FALSE
    ELSE isTimeClaimsValid(token.payload, nowSeconds, SkewSeconds)

\* mutant: the result is stored whether or not the effect was cleaned up
allowedAfter_Uncancelled(cancelled, allowed, ok) ==
    IF ok THEN "true" ELSE "false"

\* if (!cancelled) setAllowed(ok)
allowedAfter(cancelled, allowed, ok) ==
    IF cancelled THEN allowed
    ELSE IF ok THEN "true" ELSE "false"

\* what AuthGate renders
AuthGate(allowed) == IF allowed # "true" THEN "null" ELSE "children"

\* a token that verifies whenever it is checked
SoundToken ==
    [parses |-> TRUE, alg |-> "RS256", validSig |-> TRUE,
     payload |-> [exp |-> {}, nbf |-> {}, iat |-> {}]]

\* the gate once it has let the application through
GateOpen ==
    [mounted |-> TRUE, allowed |-> "true", cancelled |-> FALSE, pc |-> "done",
     token |-> <<SoundToken>>, read |-> <<SoundToken>>, key |-> "configured",
     subtle |-> TRUE, resolved |-> <<[ok |-> TRUE, now |-> 0]>>]

\* the state once the stored collection has been loaded on calendar day 'day'
LoadedOn(ps, day) ==
    /\ problems = ps
    /\ today = day
    /\ nextId = 1
    /\ due = getProblemsDueToday(ps, day)
    /\ dueDay = day
    /\ returnedToday = Ids(getProblemsDueToday(ps, day))
    /\ lastCall = <<>>
    /\ editingProblem = <<>>
    /\ stats = <<>>
    /\ storage = ps
    /\ lastImport = <<>>
    /\ gate = GateOpen

\* day 0 is the day the collection is loaded
Loaded(ps) == LoadedOn(ps, 0)

(* ---- Spec: a stored collection, attempts, renders and days ---- *)

\* what a slot of the collection may hold when loaded
StoredKinds ==
    {[difficulty |-> "Easy", reviews |-> 0],
     [difficulty |-> "Hard", reviews |-> 0],
     [difficulty |-> "Medium", reviews |-> 1],
     [difficulty |-> "Medium", reviews |-> MaxHistory]}

\* what the user enters in the attempt dialog
DialogInputs ==
    {[success |-> TRUE, difficultyRating |-> 0],
     [success |-> FALSE, difficultyRating |-> 5]}

Init ==
    \E kinds \in [1..NumProblems -> StoredKinds] :
        Loaded([i \in 1..NumProblems |->
                    StoredProblem(i, kinds[i].difficulty, kinds[i].reviews)])

Attempt ==
    \E i \in 1..Len(problems), attempt \in DialogInputs :
        /\ nextId <= MaxAttempts
        /\ RecordAttempt(i, attempt)

Next == Attempt \/ Render \/ Tick

Spec == Init /\ [][Next]_vars

(* ---- SpecUpdate: one problem, every attempt input ---- *)

InitUpdate ==
    \E n \in 0..MaxHistory :
        Loaded(<<StoredProblem(1, "Medium", n)>>)

Update ==
    \E attempt \in AttemptInputs :
        /\ nextId <= MaxUpdates
        /\ RecordAttempt(1, attempt)

NextUpdate == Update \/ Tick

SpecUpdate == InitUpdate /\ [][NextUpdate]_vars

(* ---- SpecFresh: a collection of unattempted problems of every difficulty ---- *)

InitFresh ==
    \E difficulty \in [1..NumFresh -> Difficulty] :
        Loaded([i \in 1..NumFresh |-> StoredProblem(i, difficulty[i], 0)])

\* the attempt dialog submitted as it opens: success, rated 3
DialogDefault == [success |-> TRUE, difficultyRating |-> 3]

AttemptDefault ==
    \E i \in 1..Len(problems) :
        /\ nextId <= MaxAttempts
        /\ RecordAttempt(i, DialogDefault)

NextFresh == AttemptDefault \/ Render \/ Tick

SpecFresh == InitFresh /\ [][NextFresh]_vars

(* ---- SpecImported: the collection loaded after a backup was imported ---- *)

\* importFromJsonText checks only that the backup's problems are an array before
\* replaceProblems stores them, so the collection that loadProblems returns
\* afterwards may hold records that repeat the id of the first one.
BackupFiles ==
    {[i \in 1..NumImported |->
          StoredProblem(ids[i], kinds[i].difficulty, kinds[i].reviews)] :
        ids \in {f \in [1..NumImported -> 1..NumImported] :
                    \A i \in 1..NumImported : f[i] \in {1, i}},
        kinds \in [1..NumImported -> StoredKinds]}

InitImported == \E ps \in BackupFiles : Loaded(ps)

NextImported == Render \/ Tick

SpecImported == InitImported /\ [][NextImported]_vars

(* ---- SpecEdit: one problem, attempts and edits of its descriptive fields ---- *)

\* handleEditProblem: the record shown in the list is kept for the form
OpenEdit(i) ==
    /\ editingProblem' = <<problems[i]>>
    /\ due' = getProblemsDueToday(problems, today)
    /\ dueDay' = today
    /\ returnedToday' = returnedToday \cup Ids(due')
    /\ UNCHANGED <<gate, problems, today, nextId, lastCall, stats, storage, lastImport>>

\* {...editingProblem, name, url, difficulty, category}: of the descriptive fields
\* the model keeps the difficulty
editedProblem(problem, difficulty) == [problem EXCEPT !.difficulty = difficulty]

\* updateProblem: prev.map(p => p.id === problem.id ? problem : p)
replaceById(ps, problem) ==
    [k \in 1..Len(ps) |-> IF ps[k].id = problem.id THEN problem ELSE ps[k]]

\* handleAddProblem with the form opened on a record: the edited record replaces the
\* stored one and the form is closed
SaveEdit(difficulty) ==
    /\ editingProblem # <<>>
    /\ problems' = replaceById(problems, editedProblem(editingProblem[1], difficulty))
    /\ editingProblem' = <<>>
    /\ due' = getProblemsDueToday(problems', today)
    /\ dueDay' = today
    /\ returnedToday' = returnedToday \cup Ids(due')
    /\ storage' = updateProblemInStorage(
                      storage, editedProblem(editingProblem[1], difficulty))
    /\ UNCHANGED <<gate, today, nextId, lastCall, stats, lastImport>>

\* handleCloseForm
CloseForm ==
    /\ editingProblem' = <<>>
    /\ due' = getProblemsDueToday(problems, today)
    /\ dueDay' = today
    /\ returnedToday' = returnedToday \cup Ids(due')
    /\ UNCHANGED <<gate, problems, today, nextId, lastCall, stats, storage, lastImport>>

Edit == \E i \in 1..Len(problems) : OpenEdit(i)

Save == \E difficulty \in Difficulty : SaveEdit(difficulty)

NextEdit == Attempt \/ Edit \/ Save \/ CloseForm \/ Tick

SpecEdit == InitUpdate /\ [][NextEdit]_vars

(* ---- SpecCaller: one problem, attempt objects that carry fields of their own ---- *)

\* Omit<Attempt, 'id' | 'date'> is a compile-time type: an object that has an id or
\* a date besides the two required fields is passed through unchanged at run time.
CallerInputs ==
    DialogInputs
        \cup {[success |-> a.success, difficultyRating |-> a.difficultyRating,
                id |-> 0] : a \in DialogInputs}
        \cup {[success |-> a.success, difficultyRating |-> a.difficultyRating,
                date |-> 0 - 1] : a \in DialogInputs}
        \cup {[success |-> a.success, difficultyRating |-> a.difficultyRating,
                id |-> 0, date |-> 0 - 1] : a \in DialogInputs}

UpdateFromCaller ==
    \E attempt \in CallerInputs :
        /\ nextId <= MaxUpdates
        /\ RecordAttempt(1, attempt)

NextCaller == UpdateFromCaller \/ Tick

SpecCaller == InitUpdate /\ [][NextCaller]_vars

(* ---- SpecClock: midnight may pass while an engine call is running ---- *)

\* recordAttempt when midnight passes between the two clock readings of
\* updateProblemWithAttempt; the re-render happens on the new day.
RecordAttemptOverMidnight(i, attempt) ==
    /\ today < MaxDay
    /\ today' = today + 1
    /\ problems' = [problems EXCEPT
                      ![i] = updateProblemWithAttemptAt(problems[i], attempt,
                                                        today, today + 1, nextId)]
    /\ nextId' = nextId + 1
    /\ lastCall' = <<[id |-> problems[i].id, before |-> problems[i],
                      attempt |-> attempt, day |-> today,
                      quality |-> calculateQuality(attempt.success,
                                                   attempt.difficultyRating)]>>
    /\ due' = getProblemsDueToday(problems', today + 1)
    /\ dueDay' = today + 1
    /\ returnedToday' = Ids(due')
    /\ editingProblem' =
          IF editingProblem # <<>> /\ editingProblem[1] = problems[i]
          THEN <<inputAfterCall(problems[i], attempt, today, nextId)>>
          ELSE editingProblem
    /\ storage' = updateProblemInStorage(
                      storage, updateProblemWithAttemptAt(problems[i], attempt,
                                                          today, today + 1, nextId))
    /\ UNCHANGED <<gate, stats, lastImport>>

\* a render when midnight passes inside getProblemsDueToday, after 'cut' of the
\* clock readings of the repeat filter and before the last one
RenderOverMidnight ==
    \E cut \in 0..(2 * Len(problems) - 1) :
        /\ today < MaxDay
        /\ today' = today + 1
        /\ due' = getProblemsDueTodayAt(problems, today, cut)
        /\ dueDay' = today + 1
        /\ returnedToday' = Ids(due')
        /\ UNCHANGED <<gate, problems, nextId, lastCall, editingProblem, stats, storage,
                     lastImport>>

InitClock ==
    \E kinds \in [1..NumClocked -> StoredKinds] :
        Loaded([i \in 1..NumClocked |->
                    StoredProblem(i, kinds[i].difficulty, kinds[i].reviews)])

AttemptClocked ==
    \E i \in 1..Len(problems), attempt \in DialogInputs :
        /\ nextId <= MaxUpdates
        /\ RecordAttempt(i, attempt)

AttemptOverMidnight ==
    \E i \in 1..Len(problems), attempt \in DialogInputs :
        /\ nextId <= MaxUpdates
        /\ RecordAttemptOverMidnight(i, attempt)

NextClock ==
    AttemptClocked \/ AttemptOverMidnight \/ Render \/ RenderOverMidnight \/ Tick

SpecClock == InitClock /\ [][NextClock]_vars

(* ---- SpecStats: the dashboard figures of a collection loaded on any day ---- *)

\* the render of App: calculateStats(problems) and getProblemsDueToday(problems)
RenderStats ==
    /\ stats' = <<[result |-> calculateStats(problems, today),
                   of |-> problems, day |-> today]>>
    /\ problems' = collectionAfterRender(problems, today)
    /\ due' = getProblemsDueToday(problems, today)
    /\ dueDay' = today
    /\ returnedToday' = returnedToday \cup Ids(due')
    /\ UNCHANGED <<gate, today, nextId, lastCall, editingProblem, storage, lastImport>>

\* what a slot of the collection may hold: a problem just created, problems
\* attempted once on the day of loading and 364 and 365 days before it (the edges
\* of the rolling window), and a problem reviewed until mastered
StatsKinds ==
    {[difficulty |-> "Easy", reviews |-> 0, age |-> 0],
     [difficulty |-> "Easy", reviews |-> 1, age |-> 0],
     [difficulty |-> "Hard", reviews |-> 1, age |-> 364],
     [difficulty |-> "Medium", reviews |-> 1, age |-> 365],
     [difficulty |-> "Medium", reviews |-> MaxHistory, age |-> Pow2(MaxHistory) - 1]}

StatsDays == (0 - DaysBack)..MaxDay

InitStats ==
    \E day \in StatsDays, n \in 0..NumStats :
        \E kinds \in [1..n -> StatsKinds] :
            LoadedOn([i \in 1..n |->
                         StoredProblemSince(i, kinds[i].difficulty, kinds[i].reviews,
                                            day - kinds[i].age)],
                     day)

NextStats == RenderStats

SpecStats == InitStats /\ [][NextStats]_vars

(* ---- SpecImport: backup files, well-formed or not, are imported ---- *)

\* handleImportFile: importFromJsonText(text), then reloadProblems() and the render
\* it causes; when the import throws, the catch block swallows the error and
\* nothing else is done.
ImportFile(text) ==
    LET outcome == importFromJsonText(text, storage)
    IN  /\ lastImport' = <<[text |-> text, threw |-> outcome.threw,
                            count |-> outcome.count]>>
        /\ storage' = outcome.stored
        /\ problems' = IF outcome.threw THEN problems ELSE loadProblems(outcome.stored)
        /\ due' = IF outcome.threw THEN due ELSE getProblemsDueToday(problems', today)
        /\ dueDay' = IF outcome.threw THEN dueDay ELSE today
        /\ returnedToday' = IF outcome.threw THEN returnedToday
                            ELSE returnedToday \cup Ids(due')
        /\ UNCHANGED <<gate, today, nextId, lastCall, editingProblem, stats>>

\* the problems arrays found in backup files
BackupArrays ==
    {<<>>,
     <<StoredProblem(1, "Easy", 0)>>,
     <<StoredProblem(1, "Medium", 1), StoredProblem(2, "Hard", 0)>>}

\* a property that is not what the import expects
NoItems == [isArray |-> FALSE, items |-> <<>>]

BackupTexts ==
    {[json |-> FALSE, type |-> "none", version |-> "undefined", problems |-> NoItems]}
        \cup {[json |-> TRUE, type |-> type, version |-> "undefined",
                problems |-> NoItems] : type \in {"null", "number", "string", "array"}}
        \cup {[json |-> TRUE, type |-> "object", version |-> version,
                problems |-> NoItems] :
                    version \in {"undefined", "string", "number", "newer"}}
        \cup {[json |-> TRUE, type |-> "object", version |-> version,
                problems |-> [isArray |-> TRUE, items |-> items]] :
                    version \in {"undefined", "string", "number", "newer"},
                    items \in BackupArrays}

Import == \E text \in BackupTexts : ImportFile(text)

\* the file just exported is imported again
Reimport == ImportFile(buildExportJson(storage))

NextImport == Import \/ Reimport \/ Tick

SpecImport == InitUpdate /\ [][NextImport]_vars

(* ---- SpecHook: the operations of useProblems on React state and storage ---- *)

\* storage.addProblem: load, push, save
addProblemToStorage(stored, problem) == Append(stored, problem)

\* storage.deleteProblem: load, filter, save
deleteProblemFromStorage(stored, problemId) ==
    LET kept(p) == p.id # problemId
    IN  SelectSeq(stored, kept)

\* problems.find(p => p.id === problemId): the place of the first record with the
\* id, 0 when there is none
find(ps, problemId) ==
    LET found == {k \in 1..Len(ps) : ps[k].id = problemId}
    IN  IF found = {} THEN 0 ELSE CHOOSE k \in found : \A j \in found : k <= j

\* useProblems.updateProblem on the pair of React state and storage: storage
\* replaces the first record with the id, the state updater every record with it
updateProblem(hook, problem) ==
    [problems |-> replaceById(hook.problems, problem),
     storage |-> updateProblemInStorage(hook.storage, problem)]

\* useProblems.recordAttempt: the problem is looked up in 'closure', the problems
\* array of the render that created the callback, not in the pending state
recordAttempt(closure, hook, problemId, attempt, now, newId) ==
    LET i == find(closure, problemId)
    IN  IF i = 0 THEN hook
        ELSE updateProblem(hook, updateProblemWithAttempt(closure[i], attempt, now, newId))

\* recordAttempt called once for each element of 'calls' before React renders
\* again: every call sees the same closure, the state updaters are queued and
\* storage is written at once
RECURSIVE recordAttempts(_, _, _, _, _, _)
recordAttempts(closure, hook, problemId, calls, now, newId) ==
    IF calls = <<>> THEN hook
    ELSE recordAttempts(closure,
                        recordAttempt(closure, hook, problemId, Head(calls), now, newId),
                        problemId, Tail(calls), now, newId + 1)

\* the render that follows a state change: getProblemsDueToday(problems)
RenderAfter ==
    /\ due' = getProblemsDueToday(problems', today)
    /\ dueDay' = today
    /\ returnedToday' = returnedToday \cup Ids(due')

\* an event handler that calls recordAttempt for every element of 'calls'
RecordAttempts(problemId, calls) ==
    LET hook == recordAttempts(problems, [problems |-> problems, storage |-> storage],
                               problemId, calls, today, nextId)
    IN  /\ problems' = hook.problems
        /\ storage' = hook.storage
        /\ nextId' = nextId + Len(calls)
        /\ lastCall' = [c \in 1..Len(calls) |->
                          [id |-> problemId,
                           before |-> problems[find(problems, problemId)],
                           attempt |-> calls[c], day |-> today,
                           quality |-> calculateQuality(calls[c].success,
                                                        calls[c].difficultyRating)]]
        /\ RenderAfter
        /\ UNCHANGED <<gate, today, editingProblem, stats, lastImport>>

\* useProblems.addProblem; the generated id is one that no record has
AddProblem(difficulty) ==
    LET used == Ids(problems) \cup Ids(storage)
        id == CHOOSE n \in 1..(Cardinality(used) + 1) : n \notin used
        newProblem == createNewProblem(id, difficulty, today)
    IN  /\ storage' = addProblemToStorage(storage, newProblem)
        /\ problems' = Append(problems, newProblem)
        /\ RenderAfter
        /\ UNCHANGED <<gate, today, nextId, lastCall, editingProblem, stats, lastImport>>

\* useProblems.updateProblem with an edited copy of record i
UpdateProblem(i, difficulty) ==
    LET hook == updateProblem([problems |-> problems, storage |-> storage],
                              editedProblem(problems[i], difficulty))
    IN  /\ problems' = hook.problems
        /\ storage' = hook.storage
        /\ RenderAfter
        /\ UNCHANGED <<gate, today, nextId, lastCall, editingProblem, stats, lastImport>>

\* useProblems.deleteProblem
DeleteProblem(problemId) ==
    /\ storage' = deleteProblemFromStorage(storage, problemId)
    /\ problems' = LET kept(p) == p.id # problemId IN SelectSeq(problems, kept)
    /\ RenderAfter
    /\ UNCHANGED <<gate, today, nextId, lastCall, editingProblem, stats, lastImport>>

\* useProblems.reloadProblems
ReloadProblems ==
    /\ problems' = loadProblems(storage)
    /\ RenderAfter
    /\ UNCHANGED <<gate, today, nextId, lastCall, editingProblem, stats, storage, lastImport>>

\* useProblems.replaceAllProblems
ReplaceAllProblems(next) ==
    /\ storage' = replaceProblems(storage, next)
    /\ problems' = next
    /\ RenderAfter
    /\ UNCHANGED <<gate, today, nextId, lastCall, editingProblem, stats, lastImport>>

\* the collections that backup files and callers of replaceAllProblems provide;
\* nothing checks that the ids of the records differ
HookArrays ==
    {<<>>,
     <<StoredProblem(1, "Medium", 1), StoredProblem(2, "Hard", 0)>>,
     <<StoredProblem(1, "Medium", 1), StoredProblem(1, "Hard", 0)>>}

HookTexts ==
    {[json |-> FALSE, type |-> "none", version |-> "undefined", problems |-> NoItems]}
        \cup {[json |-> TRUE, type |-> "object", version |-> "number",
                problems |-> [isArray |-> TRUE, items |-> items]] :
                    items \in HookArrays}

\* the sequences of attempts one event handler records
HookCalls == UNION {[1..n -> DialogInputs] : n \in 1..MaxCalls}

\* what a slot of the loaded collection may hold
HookKinds ==
    {[difficulty |-> "Easy", reviews |-> 0],
     [difficulty |-> "Medium", reviews |-> 1]}

InitHook ==
    \E kinds \in [1..NumHook -> HookKinds] :
        Loaded([i \in 1..NumHook |->
                    StoredProblem(i, kinds[i].difficulty, kinds[i].reviews)])

HookAttempt ==
    \E problemId \in Ids(problems), calls \in HookCalls :
        /\ nextId <= MaxAttempts
        /\ RecordAttempts(problemId, calls)

HookAdd ==
    \E difficulty \in {"Easy"} :
        /\ Len(problems) < NumHook + 1
        /\ AddProblem(difficulty)

HookUpdate ==
    \E i \in 1..Len(problems) : UpdateProblem(i, "Easy")

HookDelete == \E problemId \in Ids(problems) : DeleteProblem(problemId)

HookReplace == \E next \in HookArrays : ReplaceAllProblems(next)

HookImport == \E text \in HookTexts : ImportFile(text)

NextHook ==
    \/ HookAttempt
    \/ HookAdd
    \/ HookUpdate
    \/ HookDelete
    \/ ReloadProblems
    \/ HookReplace
    \/ HookImport
    \/ Tick

SpecHook == InitHook /\ [][NextHook]_vars

(* ---- the Due Today tab ---- *)

\* ProblemList.filteredProblems: what the list renders of the problems it is given;
\* isToday(parseISO(p.nextReviewDate)) reads the clock at render
filteredProblems(ps, showDueOnly, showMasteredOnly, now) ==
    LET shown(p) ==
            IF showMasteredOnly THEN p.mastered
            ELSE IF showDueOnly THEN p.nextReviewDate = now /\ ~p.mastered
            ELSE ~p.mastered
    IN  SelectSeq(ps, shown)

\* the Due Today TabPanel: the header counts problemsDueToday, the list is
\* <ProblemList problems={problemsDueToday} showDueOnly={true} />
DueTodayHeader(problemsDueToday) == Len(problemsDueToday)

DueTodayList(problemsDueToday, now) == filteredProblems(problemsDueToday, TRUE, FALSE, now)

(* ---- SpecAuth: AuthGate is mounted, verifies the stored token, is unmounted ---- *)

\* the time claims found in tokens, around the edges of the skew
ClaimTimes == {{}, {0}, {1}, {SkewSeconds + SkewSeconds}, {SkewSeconds + SkewSeconds + 1}}

\* the clock readings of a verification, in seconds
NowSeconds == {SkewSeconds, SkewSeconds + 1}

\* what localStorage may hold under TOKEN_KEY: <<>> is no token
StoredTokens ==
    {<<>>}
        \cup {<<[parses |-> FALSE, alg |-> "none", validSig |-> FALSE,
                 payload |-> [exp |-> {}, nbf |-> {}, iat |-> {}]]>>}
        \cup {<<[parses |-> TRUE, alg |-> alg, validSig |-> validSig,
                 payload |-> [exp |-> {}, nbf |-> {}, iat |-> {}]]>> :
                    alg \in {"RS256", "HS256"}, validSig \in BOOLEAN}
        \cup {<<[parses |-> TRUE, alg |-> "RS256", validSig |-> TRUE,
                 payload |-> [exp |-> exp, nbf |-> nbf, iat |-> iat]]>> :
                    exp \in ClaimTimes, nbf \in ClaimTimes, iat \in ClaimTimes}

\* VITE_JWT_PUBLIC_KEY: not set, set to something importKey refuses, or a key
PublicKeys == {"missing", "malformed", "configured"}

\* every variable of the application, which the gate does not touch
appVars == <<problems, today, nextId, due, dueDay, returnedToday, lastCall,
             editingProblem, stats, storage, lastImport>>

\* AuthGate has rendered for the first time: allowed is null, the effect has not run
InitAuth ==
    /\ problems = <<>>
    /\ today = 0
    /\ nextId = 1
    /\ due = <<>>
    /\ dueDay = 0
    /\ returnedToday = {}
    /\ lastCall = <<>>
    /\ editingProblem = <<>>
    /\ stats = <<>>
    /\ storage = <<>>
    /\ lastImport = <<>>
    /\ \E token \in StoredTokens, key \in PublicKeys, subtle \in BOOLEAN :
          gate = [mounted |-> TRUE, allowed |-> "null", cancelled |-> FALSE,
                  pc |-> "effect", token |-> token, read |-> <<>>, key |-> key,
                  subtle |-> subtle, resolved |-> <<>>]

\* the effect, up to its await: the token is read; without a token or a key the
\* gate is closed at once
RunEffect ==
    /\ gate.mounted
    /\ gate.pc = "effect"
    /\ gate' = IF gate.token = <<>> \/ gate.key = "missing"
               THEN [gate EXCEPT !.read = gate.token,
                                 !.allowed = allowedAfter(gate.cancelled, gate.allowed,
                                                          FALSE),
                                 !.pc = "done"]
               ELSE [gate EXCEPT !.read = gate.token, !.pc = "verifying"]
    /\ UNCHANGED appVars

\* verifyJwtWithPublicKey resolves and the effect goes on after its await
Resolve ==
    \E now \in NowSeconds :
        LET ok == verifyJwtWithPublicKey(gate.read[1], gate.key, gate.subtle, now)
        IN  /\ gate.pc = "verifying"
            /\ gate' = [gate EXCEPT
                          !.resolved = <<[ok |-> ok, now |-> now]>>,
                          !.allowed = allowedAfter(gate.cancelled, gate.allowed, ok),
                          !.pc = "done"]
            /\ UNCHANGED appVars

\* the component is unmounted: the cleanup of the effect sets cancelled; an effect
\* that has not run yet never runs
Unmount ==
    /\ gate.mounted
    /\ gate' = [gate EXCEPT !.mounted = FALSE,
                            !.cancelled = (gate.pc # "effect"),
                            !.pc = IF gate.pc = "effect" THEN "done" ELSE gate.pc]
    /\ UNCHANGED appVars

\* the token is removed from localStorage (a sign-out elsewhere)
RemoveToken ==
    /\ gate.token # <<>>
    /\ gate' = [gate EXCEPT !.token = <<>>]
    /\ UNCHANGED appVars

NextAuth == RunEffect \/ Resolve \/ Unmount \/ RemoveToken

SpecAuth == InitAuth /\ [][NextAuth]_vars

(* ---- SpecMastery: one problem from its creation through series of attempts ---- *)

\* the attempts of a series: a success that counts, a success rated 5 (quality 0)
\* and a failure
SeriesInputs ==
    {[success |-> TRUE, difficultyRating |-> 4],
     [success |-> TRUE, difficultyRating |-> 5],
     [success |-> FALSE, difficultyRating |-> 3]}

\* the problem as createNewProblem returns it, or after three successful reviews
InitMastery ==
    \E n \in {0, 3} :
        Loaded(<<StoredProblem(1, "Medium", n)>>)

Practice ==
    \E attempt \in SeriesInputs :
        /\ nextId <= MaxSeries
        /\ RecordAttempt(1, attempt)

NextMastery == Practice \/ Tick

SpecMastery == InitMastery /\ [][NextMastery]_vars

(* ======================= properties ======================= *)

\* the record of the collection with this id
Current(id) == problems[CHOOSE k \in 1..Len(problems) : problems[k].id = id]

Called == lastCall # <<>>
CallBefore == lastCall[1].before
CallAttempt == lastCall[1].attempt
CallAfter == Current(lastCall[1].id)
CallQuality == lastCall[1].quality
CallDay == lastCall[1].day

NewIn(ps) == {k \in 1..Len(ps) : isNewProblem(ps[k])}

\* every attempt of p is dated now: p had no attempt when the day began
UntouchedBefore(p, now) ==
    \A k \in 1..Len(p.attempts) : p.attempts[k].date = now

(* C1: the ease factor of every problem is at least 1.3 (130 hundredths) in every
   reachable state, whatever attempts (any success flag, any integer rating) were
   recorded. *)
C1_EaseFloor ==
    \A i \in 1..Len(problems) : problems[i].easeFactor >= 130

\* the floor has acted: the formula's raw value was below 1.3
C1_FloorApplied ==
    /\ Called
    /\ CallBefore.easeFactor
         + (10 - (5 - calculateQuality(CallAttempt.success, CallAttempt.difficultyRating))
                 * (8 + (5 - calculateQuality(CallAttempt.success,
                                              CallAttempt.difficultyRating)) * 2)) < 130
    /\ CallAfter.easeFactor = 130

(* C2: once a problem is mastered, every later step leaves it with mastered = true
   and status "mastered", failed attempts included. *)
C2_MasterySticky ==
    [][\A i \in 1..Len(problems) :
          problems[i].mastered =>
              problems'[i].mastered /\ problems'[i].status = "mastered"]_vars

\* a mastered problem has just failed an attempt and is still mastered
C2_FailedAfterMastery ==
    /\ Called
    /\ CallBefore.mastered
    /\ ~CallAttempt.success
    /\ CallAfter.mastered
    /\ CallAfter.status = "mastered"

(* C3: an attempt with success = false leaves interval = 1, whatever the interval
   was before and whatever the rating. *)
C3_FailureResets ==
    (Called /\ ~CallAttempt.success) => CallAfter.interval = 1

\* a failure on a problem whose interval had reached the mastery threshold
C3_ResetFromLong ==
    /\ Called
    /\ ~CallAttempt.success
    /\ CallBefore.interval >= 30
    /\ CallAfter.interval = 1

(* C4: an attempt with success = true and a rating in 0..5 leaves interval = 2n when
   the interval was n > 0, and 1 when it was 0. *)
C4_SuccessDoubles ==
    (Called /\ CallAttempt.success /\ CallAttempt.difficultyRating \in 0..5) =>
        CallAfter.interval =
            IF CallBefore.interval = 0 THEN 1 ELSE 2 * CallBefore.interval

(* C5: every step leaves each problem's attempts log unchanged, except that an
   updateProblemWithAttempt call on the problem extends it by exactly one attempt at
   the end; the log never shrinks or reorders. *)
C5_AppendOnly ==
    [][\A i \in 1..Len(problems) :
          LET old == problems[i].attempts
              new == problems'[i].attempts
          IN  IF lastCall' # lastCall /\ lastCall'[1].id = problems[i].id
              THEN /\ Len(new) = Len(old) + 1
                   /\ SubSeq(new, 1, Len(old)) = old
                   /\ new[Len(new)].success = lastCall'[1].attempt.success
                   /\ new[Len(new)].difficultyRating
                        = lastCall'[1].attempt.difficultyRating
              ELSE new = old]_vars

\* a call on a problem that already had attempts has appended one
C5_Appended ==
    /\ Called
    /\ Len(CallBefore.attempts) >= 2
    /\ Len(CallAfter.attempts) = Len(CallBefore.attempts) + 1
    /\ SubSeq(CallAfter.attempts, 1, Len(CallBefore.attempts)) = CallBefore.attempts

(* C6: a getProblemsDueToday call, on any reachable collection and day, returns at
   most 2 problems with zero attempts and no mastered problem; so does the latest
   call actually made. *)
C6_SelectionCap ==
    LET now == getProblemsDueToday(problems, today)
    IN  /\ Cardinality(NewIn(now)) <= 2
        /\ \A k \in 1..Len(now) : ~now[k].mastered
        /\ Cardinality(NewIn(due)) <= 2
        /\ \A k \in 1..Len(due) : ~due[k].mastered

\* the cap has cut the list: 3 or more unattempted problems, 2 returned, and a
\* mastered problem that is due by date is left out
C6_CapApplied ==
    /\ dueDay = today
    /\ due = getProblemsDueToday(problems, today)
    /\ Cardinality(NewIn(problems)) >= 3
    /\ Cardinality(NewIn(due)) = 2
    /\ \E i \in 1..Len(problems) :
          /\ problems[i].mastered
          /\ problems[i].nextReviewDate <= today
          /\ problems[i].id \notin Ids(due)

(* C7: within one day, at most 2 distinct problems that had zero attempts when the
   day began are returned by getProblemsDueToday calls. *)
C7_DailyIntakeCap ==
    Cardinality({id \in returnedToday : UntouchedBefore(Current(id), today)}) <= 2

(* C8: a non-mastered problem with at least one attempt whose nextReviewDate day is
   today or earlier is returned by getProblemsDueToday, on that day and on every
   later day, as long as no attempt is recorded for it; a previously attempted
   problem with an attempt dated today is not returned. *)
C8_OverdueRepeats ==
    LET now == Ids(getProblemsDueToday(problems, today))
    IN  \A i \in 1..Len(problems) :
          LET p == problems[i]
          IN  /\ (~p.mastered /\ Len(p.attempts) >= 1 /\ p.nextReviewDate <= today)
                    => p.id \in now
              /\ (Len(p.attempts) >= 1 /\ getAttemptsToday(p, today) >= 1)
                    => p.id \notin now

\* a repeat that fell due on an earlier day is in the list computed today
C8_OverdueShown ==
    \E i \in 1..Len(problems) :
        /\ ~problems[i].mastered
        /\ Len(problems[i].attempts) >= 1
        /\ problems[i].nextReviewDate < today
        /\ dueDay = today
        /\ problems[i].id \in Ids(due)

(* C9: a problem that had zero attempts when the day began and has 1 attempt today
   (fewer than 2) is still returned by getProblemsDueToday, ahead of every returned
   problem that has no attempt at all. *)
C9_InProgressStaysVisible ==
    LET now == getProblemsDueToday(problems, today)
    IN  \A i \in 1..Len(problems) :
          LET p == problems[i]
          IN  (/\ Len(p.attempts) >= 1
               /\ UntouchedBefore(p, today)
               /\ getAttemptsToday(p, today) < 2)
                  => \E k \in 1..Len(now) :
                        /\ now[k].id = p.id
                        /\ \A j \in 1..Len(now) : isNewProblem(now[j]) => k < j

(* C10 as stated: a failing attempt on a problem with ease e leaves
   easeFactor = max(1.3, e - 0.3). *)
C10_FailureCostsThirty ==
    (Called /\ ~CallAttempt.success) =>
        CallAfter.easeFactor = Max(130, CallBefore.easeFactor - 30)

(* C10 amended: a failing attempt (quality 0) on a problem with ease e leaves
   easeFactor = max(1.3, e - 0.8); a new problem (ease 2.5) that fails once with
   rating 5 ends with ease 1.7. *)
C10_FailureCostsEighty ==
    (Called /\ ~CallAttempt.success) =>
        CallAfter.easeFactor = Max(130, CallBefore.easeFactor - 80)

\* a new problem has failed its first attempt, rated 5, and has ease 1.7
C10_NewProblemFailed ==
    /\ Called
    /\ CallBefore.attempts = <<>>
    /\ CallBefore.easeFactor = 250
    /\ ~CallAttempt.success
    /\ CallAttempt.difficultyRating = 5
    /\ CallAfter.easeFactor = 170

(* C11: an attempt of quality q on a problem with ease e leaves
   easeFactor = max(1.3, e + d), where d is +0.10, 0, -0.14, -0.32, -0.54, -0.80
   for q = 5, 4, 3, 2, 1, 0; there is no upper cap. *)
C11_EaseFormula ==
    Called =>
        LET change == CASE CallQuality = 5 -> 10
                        [] CallQuality = 4 -> 0
                        [] CallQuality = 3 -> 0 - 14
                        [] CallQuality = 2 -> 0 - 32
                        [] CallQuality = 1 -> 0 - 54
                        [] CallQuality = 0 -> 0 - 80
        IN  CallAfter.easeFactor = Max(130, CallBefore.easeFactor + change)

\* a quality-5 attempt has raised an ease factor that was already 3.1 or more
C11_RaisedWithoutCap ==
    /\ Called
    /\ CallQuality = 5
    /\ CallBefore.easeFactor >= 310
    /\ CallAfter.easeFactor = CallBefore.easeFactor + 10

(* C12: the quality of an attempt is 0 when success is false and otherwise
   min(5, max(0, 5 - difficultyRating)), for ratings below 0 and above 5 too; it
   is always in 0..5. *)
C12_QualityClamped ==
    Called =>
        /\ CallQuality \in 0..5
        /\ CallQuality =
             IF ~CallAttempt.success THEN 0
             ELSE IF CallAttempt.difficultyRating <= 0 THEN 5
             ELSE IF CallAttempt.difficultyRating >= 5 THEN 0
             ELSE 5 - CallAttempt.difficultyRating

\* a successful attempt rated below 0 was scored 5, not 6
C12_ClampedFromAbove ==
    /\ Called
    /\ CallAttempt.success
    /\ CallAttempt.difficultyRating < 0
    /\ CallQuality = 5

(* C13: after an attempt, mastered is true exactly when the new interval is 30 or
   more or the problem was mastered before; status is "mastered" exactly then, and
   otherwise "learning" if the status was "new" and "reviewing" if not. *)
C13_MasteryThreshold ==
    Called =>
        /\ CallAfter.mastered = ((CallAfter.interval >= 30) \/ CallBefore.mastered)
        /\ (CallAfter.status = "mastered") = CallAfter.mastered
        /\ ~CallAfter.mastered =>
              CallAfter.status =
                  IF CallBefore.status = "new" THEN "learning" ELSE "reviewing"

\* the attempt that took the interval over the threshold
C13_ThresholdCrossed ==
    /\ Called
    /\ ~CallBefore.mastered
    /\ CallBefore.interval < 30
    /\ CallAfter.interval >= 30
    /\ CallAfter.mastered
    /\ CallAfter.status = "mastered"

(* C14: after an attempt made on day d that produced interval k, lastReviewed is
   day d and nextReviewDate is day d + k; k is at least 1, so the problem is not
   due by date on day d. *)
C14_NextReviewDate ==
    Called =>
        /\ CallAfter.lastReviewed = {CallDay}
        /\ CallAfter.nextReviewDate = CallDay + CallAfter.interval
        /\ CallAfter.interval >= 1
        /\ CallAfter.nextReviewDate > CallDay

\* an attempt made on a later day than the load, giving an interval of 2 or more
C14_ScheduledAhead ==
    /\ Called
    /\ CallDay >= 1
    /\ CallAfter.interval >= 2
    /\ CallAfter.nextReviewDate = CallDay + CallAfter.interval

\* the place in the collection of the record with this id
IndexOf(id) == CHOOSE k \in 1..Len(problems) : problems[k].id = id

DistinctIds == \A j, k \in 1..Len(problems) :
                  problems[j].id = problems[k].id => j = k

DifficultyRank(d) == IF d = "Easy" THEN 1 ELSE IF d = "Medium" THEN 2 ELSE 3

\* problem j is ahead of problem k: easier, or as difficult and earlier in the collection
Ahead(j, k) ==
    \/ DifficultyRank(problems[j].difficulty) < DifficultyRank(problems[k].difficulty)
    \/ /\ DifficultyRank(problems[j].difficulty) = DifficultyRank(problems[k].difficulty)
       /\ j < k

\* the subsequence of ps that satisfies Test
Only(ps, Test(_)) == SelectSeq(ps, Test)

(* C15: the zero-attempt part of getProblemsDueToday's result is exactly the first
   min(2, n) of the n non-mastered zero-attempt problems of the collection, in
   ascending difficulty Easy < Medium < Hard with ties in collection order. *)
C15_NewProblemSelection ==
    LET result == getProblemsDueToday(problems, today)
        newPart == Only(result, isNewProblem)
        candidates == {i \in 1..Len(problems) :
                          ~problems[i].mastered /\ Len(problems[i].attempts) = 0}
        firstTwo == {i \in candidates :
                        Cardinality({j \in candidates : Ahead(j, i)}) < 2}
    IN  /\ Len(newPart) = Cardinality(firstTwo)
        /\ {IndexOf(newPart[k].id) : k \in 1..Len(newPart)} = firstTwo
        /\ \A k, l \in 1..Len(newPart) :
              k < l => Ahead(IndexOf(newPart[k].id), IndexOf(newPart[l].id))

\* 5 unattempted problems, 2 Easy, 2 Medium and 1 Hard with the Hard one first and
\* an Easy one last: the list is exactly the 2 Easy ones
C15_TwoEasyOfFive ==
    /\ Len(problems) = 5
    /\ \A i \in 1..5 : Len(problems[i].attempts) = 0
    /\ Cardinality({i \in 1..5 : problems[i].difficulty = "Easy"}) = 2
    /\ Cardinality({i \in 1..5 : problems[i].difficulty = "Medium"}) = 2
    /\ problems[1].difficulty = "Hard"
    /\ problems[5].difficulty = "Easy"
    /\ dueDay = today
    /\ Len(due) = 2
    /\ \A k \in 1..2 : due[k].difficulty = "Easy"
    /\ due[2] = problems[5]

IsRepeat(p) == ~isNewProblem(p)

(* C16: the previously-attempted part of getProblemsDueToday's result is exactly the
   problems that are not mastered, have at least 1 attempt, have a nextReviewDate day
   of today or earlier and have no attempt dated today; all of them, without a cap. *)
C16_RepeatSelection ==
    LET result == getProblemsDueToday(problems, today)
        repeatPart == Only(result, IsRepeat)
        expected == {i \in 1..Len(problems) :
                        /\ ~problems[i].mastered
                        /\ Len(problems[i].attempts) >= 1
                        /\ problems[i].nextReviewDate <= today
                        /\ \A k \in 1..Len(problems[i].attempts) :
                              problems[i].attempts[k].date # today}
    IN  /\ Len(repeatPart) = Cardinality(expected)
        /\ {repeatPart[k] : k \in 1..Len(repeatPart)} = {problems[i] : i \in expected}

\* more repeats than the new-problem limit are due and all are in the list, while
\* a repeat attempted today is left out
C16_ManyRepeatsShown ==
    /\ dueDay = today
    /\ due = getProblemsDueToday(problems, today)
    /\ Len(Only(due, IsRepeat)) >= 3
    /\ \E i \in 1..Len(problems) :
          /\ ~problems[i].mastered
          /\ getAttemptsToday(problems[i], today) >= 1
          /\ problems[i].id \notin Ids(due)

\* the first place in the candidate list of the record with this id
FirstIn(all, id) == CHOOSE j \in 1..Len(all) :
                        /\ all[j].id = id
                        /\ \A m \in 1..(j - 1) : all[m].id # id

(* C17: getProblemsDueToday's result has no two entries with the same id, and for an
   id that occurs several times in the candidate list (repeats, then new) the entry is
   the record of the first occurrence, at the first occurrence's position. *)
C17_FirstOccurrenceKept ==
    LET all == dueCandidates(problems, today)
        result == getProblemsDueToday(problems, today)
    IN  /\ \A k, l \in 1..Len(result) : result[k].id = result[l].id => k = l
        /\ Ids(result) = Ids(all)
        /\ \A k \in 1..Len(result) : result[k] = all[FirstIn(all, result[k].id)]
        /\ \A k, l \in 1..Len(result) :
              k < l => FirstIn(all, result[k].id) < FirstIn(all, result[l].id)

(* C18 as stated, for a collection with distinct ids: every repeat precedes every
   new problem in the result, and within each group the problems are in the relative
   order of the collection. *)
C18_InputOrderKept ==
    LET result == getProblemsDueToday(problems, today)
    IN  DistinctIds =>
          \A k, l \in 1..Len(result) :
              k < l =>
                  /\ IsRepeat(result[k]) \/ ~IsRepeat(result[l])
                  /\ (IsRepeat(result[k]) = IsRepeat(result[l]))
                        => IndexOf(result[k].id) < IndexOf(result[l].id)

\* places of the collection that hold a repeat candidate with this id
RepeatPlaces(id) ==
    {i \in 1..Len(problems) :
        /\ problems[i].id = id
        /\ ~problems[i].mastered
        /\ Len(problems[i].attempts) >= 1
        /\ problems[i].nextReviewDate <= today
        /\ \A k \in 1..Len(problems[i].attempts) : problems[i].attempts[k].date # today}

\* places of the collection that hold a zero-attempt problem with this id
NewPlaces(id) ==
    {i \in 1..Len(problems) :
        /\ problems[i].id = id
        /\ ~problems[i].mastered
        /\ Len(problems[i].attempts) = 0}

Least(S) == CHOOSE i \in S : \A j \in S : i <= j

(* C18 amended: in the result every id of a repeat candidate precedes every id of
   new-problem candidates only; the repeat candidates are in the relative order of
   the collection, and the new-problem candidates are in ascending difficulty
   (Easy, Medium, Hard), equally difficult ones in the relative order of the
   collection.  An id that occurs more than once counts at its first occurrence. *)
C18_RepeatsThenNewByDifficulty ==
    LET result == getProblemsDueToday(problems, today)
    IN  \A k, l \in 1..Len(result) :
          k < l =>
              LET a == result[k].id
                  b == result[l].id
              IN  IF RepeatPlaces(a) # {}
                  THEN RepeatPlaces(b) # {} =>
                          Least(RepeatPlaces(a)) < Least(RepeatPlaces(b))
                  ELSE /\ RepeatPlaces(b) = {}
                       /\ \E i \in NewPlaces(a) : \A j \in NewPlaces(b) : Ahead(i, j)

\* two repeats that follow the new problems in the collection are listed first, and
\* the two new problems are listed Easy before Hard although the Hard one comes first
C18_SortedAfterRepeats ==
    /\ DistinctIds
    /\ dueDay = today
    /\ due = getProblemsDueToday(problems, today)
    /\ Len(due) = 4
    /\ IsRepeat(due[1]) /\ IsRepeat(due[2])
    /\ IndexOf(due[1].id) < IndexOf(due[2].id)
    /\ isNewProblem(due[3]) /\ isNewProblem(due[4])
    /\ due[3].difficulty = "Easy" /\ due[4].difficulty = "Hard"
    /\ IndexOf(due[4].id) < IndexOf(due[3].id)
    /\ IndexOf(due[3].id) < IndexOf(due[1].id)

(* C19: in every state reached from a created problem by attempts and edits of the
   descriptive fields, a problem whose mastered flag is set has status 'mastered'. *)
C19_MasteredHasStatus ==
    \A i \in 1..Len(problems) :
        problems[i].mastered => problems[i].status = "mastered"

\* a mastered problem failed an attempt, was edited afterwards, and is still
\* mastered with status 'mastered'
C19_MasteredFailedAndEdited ==
    /\ Called
    /\ CallBefore.mastered
    /\ ~CallAttempt.success
    /\ editingProblem = <<>>
    /\ Current(1).attempts = appendAttempt(CallBefore.attempts,
                                [id |-> 1, date |-> CallDay,
                                 success |-> CallAttempt.success,
                                 difficultyRating |-> CallAttempt.difficultyRating])
    /\ Current(1).difficulty # CallBefore.difficulty
    /\ Current(1).mastered
    /\ Current(1).status = "mastered"

(* C20: in every state reached from a created problem by attempts and edits, a
   problem has no attempts exactly when its status is 'new', and the record an
   attempt produces never has status 'new'. *)
C20_NewIffNoAttempts ==
    /\ \A i \in 1..Len(problems) :
          (Len(problems[i].attempts) = 0) <=> (problems[i].status = "new")
    /\ Called =>
          updateProblemWithAttempt(CallBefore, CallAttempt, CallDay, 0).status # "new"
    /\ \A difficulty \in Difficulty :
          LET created == createNewProblem(1, difficulty, today)
          IN  /\ created.status = "new"
              /\ created.interval = 0
              /\ created.easeFactor = 250
              /\ created.attempts = <<>>
              /\ ~created.mastered
              /\ created.nextReviewDate = today + 1

\* a created problem got its first attempt and left status 'new'
C20_FirstAttemptLeavesNew ==
    /\ Called
    /\ CallBefore.status = "new"
    /\ Len(CallBefore.attempts) = 0
    /\ Len(Current(1).attempts) = 1
    /\ Current(1).status = "learning"

(* C21: the attempt appended by updateProblemWithAttempt carries the id generated by
   the engine and the date 'now' of the call, whatever fields the attempt object
   passed in carries, an id or a date of its own included. *)
C21_EngineAssignsIdAndDate ==
    Called =>
        LET stored == CallAfter.attempts[Len(CallAfter.attempts)]
        IN  /\ stored.id = nextId - 1
            /\ stored.date = CallDay

(* C22: a call of updateProblemWithAttempt leaves its input record and the input's
   attempts as they were, and the record it returns has the input's id, difficulty
   and createdAt (the descriptive fields the model keeps); only attempts, easeFactor,
   interval, nextReviewDate, lastReviewed, status and mastered may differ. *)
C22_UpdateFrame ==
    [][nextId' # nextId =>
          /\ Len(problems') = Len(problems)
          /\ \A i \in 1..Len(problems) :
                /\ problems'[i].id = problems[i].id
                /\ problems'[i].difficulty = problems[i].difficulty
                /\ problems'[i].createdAt = problems[i].createdAt
                /\ DOMAIN problems'[i] = DOMAIN problems[i]
          /\ lastCall'[1].before \in {problems[i] : i \in 1..Len(problems)}
          /\ editingProblem' = editingProblem]_vars

\* an attempt was recorded while the edit form held the very record passed to the
\* engine: the held record still has the attempts it had, the stored one has one more
C22_InputHeldByForm ==
    /\ Called
    /\ editingProblem = <<CallBefore>>
    /\ Len(Current(1).attempts) = Len(CallBefore.attempts) + 1
    /\ Current(1).difficulty = CallBefore.difficulty
    /\ Current(1).easeFactor # CallBefore.easeFactor

\* the scheduling state of a record
Scheduling(p) ==
    <<p.attempts, p.easeFactor, p.interval, p.nextReviewDate, p.lastReviewed,
      p.status, p.mastered>>

(* C23: saving an edit of a problem's descriptive fields leaves the scheduling state
   alone: whatever attempts were recorded between opening the form and saving, the
   saved record's attempts, easeFactor, interval, nextReviewDate, lastReviewed,
   status and mastered are those of the stored record just before the save. *)
C23_EditKeepsScheduling ==
    [][(editingProblem # <<>> /\ editingProblem' = <<>>) =>
          /\ Len(problems') = Len(problems)
          /\ \A i \in 1..Len(problems) :
                Scheduling(problems'[i]) = Scheduling(problems[i])]_vars

\* the attempt's date, lastReviewed and the base of nextReviewDate of the latest
\* updateProblemWithAttempt call are one day
UpdateDatesAgree ==
    Called =>
        LET stored == CallAfter.attempts[Len(CallAfter.attempts)]
        IN  /\ stored.date = CallDay
            /\ CallAfter.lastReviewed = {CallDay}
            /\ CallAfter.nextReviewDate = CallDay + CallAfter.interval

\* the latest due list is the selection for one day: the day the call began or the
\* day it ended
SelectionOfOneDay ==
    \E day \in {dueDay - 1, dueDay} : due = getProblemsDueToday(problems, day)

(* C24: each engine call works with one reading of the clock.  The attempt appended
   by updateProblemWithAttempt, lastReviewed and the base of nextReviewDate are the
   same day, and the list getProblemsDueToday returned is the selection for one
   calendar day, also when midnight passes while the call is running. *)
C24_NowReadOnce == UpdateDatesAgree /\ SelectionOfOneDay

Recorded == stats # <<>>
StatsResult == stats[1].result
StatsOf == stats[1].of
StatsDay == stats[1].day

(* C25: calculateStats and getProblemsDueToday are deterministic and leave the
   collection alone: with the same 'now' and the collection unchanged, running them
   again gives the output already recorded, and a run changes neither the records of
   the collection nor their order. *)
C25_RenderDeterministic ==
    /\ [](Recorded /\ StatsOf = problems /\ StatsDay = today =>
            /\ calculateStats(problems, today) = StatsResult
            /\ getProblemsDueToday(problems, today) = due)
    /\ [][stats' # stats => problems' = problems]_vars

\* the figures were computed for a collection whose order differs from the order of
\* the due list: an unattempted Easy problem before an overdue Hard one
C25_UnsortedCollectionRendered ==
    /\ Recorded
    /\ StatsOf = problems
    /\ Len(problems) = 2
    /\ isNewProblem(problems[1])
    /\ problems[2].difficulty = "Hard"
    /\ StatsResult.problemsDueToday = 2
    /\ due = <<problems[2], problems[1]>>

\* the number of attempts, over all problems of ps, that are dated 'day'
AttemptsDated(ps, day) ==
    Cardinality({pair \in (1..Len(ps)) \X (1..MaxHistory + MaxUpdates + 1) :
                    /\ pair[2] <= Len(ps[pair[1]].attempts)
                    /\ ps[pair[1]].attempts[pair[2]].date = day})

(* C26: calculateStats returns totalProblems = the number of records,
   masteredProblems = the number of records with mastered set, problemsDueToday =
   the length of the due list of the same render, and problemsByDifficulty with
   the three keys Easy, Medium and Hard, whose counts add up to totalProblems. *)
C26_SummaryCounts ==
    Recorded =>
        LET byDifficulty == StatsResult.problemsByDifficulty
        IN  /\ StatsResult.totalProblems = Len(StatsOf)
            /\ StatsResult.masteredProblems =
                  Cardinality({n \in 1..Len(StatsOf) : StatsOf[n].mastered})
            /\ StatsResult.problemsDueToday = Len(getProblemsDueToday(StatsOf, StatsDay))
            /\ (StatsOf = problems /\ dueDay = StatsDay) =>
                  StatsResult.problemsDueToday = Len(due)
            /\ DOMAIN byDifficulty = {"Easy", "Medium", "Hard"}
            /\ \A difficulty \in DOMAIN byDifficulty :
                  byDifficulty[difficulty] =
                      Cardinality({n \in 1..Len(StatsOf) :
                                      StatsOf[n].difficulty = difficulty})
            /\ byDifficulty["Easy"] + byDifficulty["Medium"] + byDifficulty["Hard"]
                  = StatsResult.totalProblems

\* figures of a collection of a mastered Medium problem and an unattempted Easy one
C26_MasteredAndNewCounted ==
    /\ Recorded
    /\ StatsResult.totalProblems = 2
    /\ StatsResult.masteredProblems = 1
    /\ StatsResult.problemsDueToday = 1
    /\ StatsResult.problemsByDifficulty["Hard"] = 0
    /\ StatsResult.problemsByDifficulty["Medium"] = 1
    /\ StatsResult.problemsByDifficulty["Easy"] = 1

(* C27: for the empty collection calculateStats and getProblemsDueToday give zeroes
   and empty results: totalProblems, problemsDueToday, masteredProblems and
   averageEaseFactor 0, each difficulty counted 0, both heatmaps without values,
   and an empty due list. *)
C27_EmptyCollection ==
    (Recorded /\ StatsOf = <<>>) =>
        /\ StatsResult.totalProblems = 0
        /\ StatsResult.problemsDueToday = 0
        /\ StatsResult.masteredProblems = 0
        /\ StatsResult.problemsByDifficulty = [d \in {"Easy", "Medium", "Hard"} |-> 0]
        /\ StatsResult.averageEaseFactor = 0
        /\ DOMAIN StatsResult.activityHeatmap.windowYear.values = {}
        /\ DOMAIN StatsResult.activityHeatmap.calendarYear.values = {}
        /\ getProblemsDueToday(StatsOf, StatsDay) = <<>>
        /\ due = <<>>

\* the figures of the empty collection have been computed
C27_EmptyRendered ==
    /\ Recorded
    /\ StatsOf = <<>>
    /\ problems = <<>>
    /\ StatsResult.totalProblems = 0
    /\ StatsResult.averageEaseFactor = 0

(* C28: the rolling heatmap window is the 365 days from today - 364 to today.  Each
   day of the window on which attempts were made has the number of those attempts
   (over all problems) as its value; a day without attempts has no key, and no day
   outside the window has one. *)
C28_RollingWindow ==
    Recorded =>
        LET window == StatsResult.activityHeatmap.windowYear
        IN  /\ window.startDate = StatsDay - 364
            /\ window.endDate = StatsDay
            /\ window.endDate - window.startDate + 1 = 365
            /\ \A day \in DOMAIN window.values :
                  /\ StatsDay - 364 <= day /\ day <= StatsDay
                  /\ window.values[day] = AttemptsDated(StatsOf, day)
                  /\ window.values[day] > 0
            /\ \A n \in 1..Len(StatsOf) :
                  \A k \in 1..Len(StatsOf[n].attempts) :
                      LET day == StatsOf[n].attempts[k].date
                      IN  (StatsDay - 364 <= day /\ day <= StatsDay)
                              => day \in DOMAIN window.values

\* an attempt made 364 days ago is counted, one made 365 days ago is not
C28_EdgeOfWindow ==
    /\ Recorded
    /\ Len(StatsOf) = 2
    /\ AttemptsDated(StatsOf, StatsDay - 365) = 1
    /\ AttemptsDated(StatsOf, StatsDay - 364) = 1
    /\ DOMAIN StatsResult.activityHeatmap.windowYear.values = {StatsDay - 364}
    /\ StatsResult.activityHeatmap.windowYear.values[StatsDay - 364] = 1

\* day numbers of 1 June and of 31 May of a year (day 0 is 31 May 2024, day 1 is
\* 1 June 2024; 2024 is the only leap year near)
JuneFirst(year) ==
    CASE year = 2022 -> 0 - 730
      [] year = 2023 -> 0 - 365
      [] year = 2024 -> 1
      [] year = 2025 -> 366

MayLast(year) == JuneFirst(year) - 1

(* C29: for every 'today' the fixed-period heatmap window starts on a 1 June, ends
   on 31 May of the year after, and contains today; on 1 June it is the cycle that
   starts that day, and on 31 May it is still the cycle that started on 1 June of
   the year before. *)
C29_CycleWindow ==
    Recorded =>
        LET cycle == StatsResult.activityHeatmap.calendarYear
        IN  /\ \E year \in 2022..2024 :
                  /\ cycle.startDate = JuneFirst(year)
                  /\ cycle.endDate = MayLast(year + 1)
            /\ cycle.startDate <= StatsDay
            /\ StatsDay <= cycle.endDate
            /\ \A year \in 2023..2024 :
                  /\ StatsDay = JuneFirst(year) => cycle.startDate = StatsDay
                  /\ StatsDay = MayLast(year) =>
                        /\ cycle.endDate = StatsDay
                        /\ cycle.startDate = JuneFirst(year - 1)

\* on 1 June 2024 the cycle has just begun: the attempt made that day is in it, the
\* reviews of the mastered problem, all before that day, are not
C29_CycleJustBegun ==
    /\ Recorded
    /\ StatsDay = 1
    /\ Len(StatsOf) = 2
    /\ \E n \in 1..2 : StatsOf[n].mastered
    /\ StatsResult.activityHeatmap.calendarYear.startDate = 1
    /\ StatsResult.activityHeatmap.calendarYear.endDate = 365
    /\ DOMAIN StatsResult.activityHeatmap.calendarYear.values = {1}

Imported == lastImport # <<>>
ImportText == lastImport[1].text

\* the text is JSON for an object with a numeric version and an array problems
WellFormed(text) ==
    /\ text.json
    /\ text.type = "object"
    /\ text.version \in {"number", "newer"}
    /\ text.problems.isArray

(* C30: given text that is not JSON, or JSON that is not an object with a numeric
   version and an array of problems, importFromJsonText throws, and the stored
   collection (and the list in memory) is exactly what it was before the call. *)
C30_InvalidImportRejected ==
    /\ [](Imported /\ ~WellFormed(ImportText) => lastImport[1].threw)
    /\ [][(lastImport' # lastImport /\ ~WellFormed(lastImport'[1].text)) =>
              /\ storage' = storage
              /\ problems' = problems]_vars

\* a backup with a problems array but a version that is no number was refused while
\* the storage held a collection different from the backup's
C30_WrongVersionRefused ==
    /\ Imported
    /\ lastImport[1].threw
    /\ ImportText.json
    /\ ImportText.type = "object"
    /\ ImportText.version = "string"
    /\ ImportText.problems.isArray
    /\ Len(ImportText.problems.items) = 2
    /\ Len(storage) = 1
    /\ storage = problems

(* C31: importFromJsonText given an object with a numeric version, the current one
   or a newer one, and an array of problems does not throw, replaces the whole stored
   collection by that array and returns its length; importing the text that
   buildExportJson has just produced leaves the stored collection as it was. *)
C31_ImportReplacesAll ==
    /\ [](Imported /\ WellFormed(ImportText) =>
            /\ ~lastImport[1].threw
            /\ lastImport[1].count = Len(ImportText.problems.items)
            /\ storage = ImportText.problems.items
            /\ problems = ImportText.problems.items)
    /\ [][(lastImport' # lastImport /\ lastImport'[1].text = buildExportJson(storage)) =>
              /\ ~lastImport'[1].threw
              /\ storage' = storage]_vars

\* a backup of two problems with a version newer than this program's replaced a
\* stored collection of one problem
C31_NewerVersionImported ==
    /\ Imported
    /\ ImportText.version = "newer"
    /\ ImportText.problems.isArray
    /\ ~lastImport[1].threw
    /\ lastImport[1].count = 2
    /\ Len(storage) = 2
    /\ storage = problems

(* C32 as stated: every problem the simple policy returns (not mastered and
   nextReviewDate on or before today) is also returned by getProblemsDueToday. *)
C32_RicherSubsumesSimple ==
    LET simple == getProblemsDueTodaySimple(problems, today)
        richer == getProblemsDueToday(problems, today)
    IN  DistinctIds =>
            \A k \in 1..Len(simple) : \E l \in 1..Len(richer) : richer[l] = simple[k]

(* C32 amended: every problem with at least one attempt, none of them dated today,
   that the simple policy returns has its id among the problems getProblemsDueToday
   returns; a never-attempted problem that the simple policy returns is returned
   by getProblemsDueToday only if it is one of the two new problems selected. *)
C32_RicherSubsumesSimpleRepeats ==
    LET simple == getProblemsDueTodaySimple(problems, today)
        richer == getProblemsDueToday(problems, today)
    IN  /\ \A k \in 1..Len(simple) :
              (/\ Len(simple[k].attempts) >= 1
               /\ \A a \in 1..Len(simple[k].attempts) :
                     simple[k].attempts[a].date # today)
                  => simple[k].id \in Ids(richer)
        /\ Cardinality({l \in 1..Len(richer) : Len(richer[l].attempts) = 0}) <= 2

\* three never-attempted problems have come due: the simple policy returns them and
\* an overdue repeat, the due list holds the repeat and two of the three
C32_ThirdNewProblemLeftOut ==
    LET simple == getProblemsDueTodaySimple(problems, today)
    IN  /\ DistinctIds
        /\ dueDay = today
        /\ due = getProblemsDueToday(problems, today)
        /\ Len(simple) = 4
        /\ Len(due) = 3
        /\ \E k \in 1..Len(simple) :
              /\ Len(simple[k].attempts) >= 1
              /\ simple[k].id \in Ids(due)
        /\ \E k \in 1..Len(simple) :
              /\ Len(simple[k].attempts) = 0
              /\ simple[k].id \notin Ids(due)

(* C33: after recordAttempt calls for an existing problem, two calls issued before
   the re-render included, the problem's attempts in React state and in storage
   contain one attempt per call. *)
C33_OneAttemptPerCall ==
    [][(DistinctIds /\ nextId' # nextId) =>
          LET problemId == lastCall'[1].id
              before == problems[find(problems, problemId)]
              calls == Len(lastCall')
          IN  /\ Len(problems'[find(problems', problemId)].attempts)
                    = Len(before.attempts) + calls
              /\ Len(storage'[find(storage', problemId)].attempts)
                    = Len(before.attempts) + calls]_vars

(* C34: after every useProblems operation the in-memory problems list equals the
   collection held in storage, record for record and in the same order. *)
C34_StateEqualsStorage == problems = storage

(* C35: the list rendered under the header 'Problems Due Today (N)' contains
   exactly the N problems returned by getProblemsDueToday, overdue repeats and new
   problems whose nextReviewDate is tomorrow included. *)
C35_TabShowsSelection ==
    dueDay = today =>
        /\ DueTodayList(due, today) = due
        /\ Len(DueTodayList(due, today)) = DueTodayHeader(due)

\* AuthGate shows its children
RendersChildren == gate.mounted /\ AuthGate(gate.allowed) = "children"

(* C36: AuthGate renders its children only when a token was present in storage, a
   public key was configured and verifyJwtWithPublicKey resolved true; while the
   verification is pending, after it resolved false, or when token or key is
   missing, nothing is rendered; a verification that completes after unmount
   never changes the allowed state. *)
C36_GateSafety ==
    /\ [](RendersChildren =>
             /\ gate.read # <<>>
             /\ gate.key = "configured"
             /\ gate.resolved # <<>>
             /\ gate.resolved[1].ok
             /\ verifyJwtWithPublicKey(gate.read[1], gate.key, gate.subtle,
                                       gate.resolved[1].now))
    /\ [](\/ gate.pc # "done"
          \/ gate.read = <<>>
          \/ gate.key = "missing"
          \/ gate.resolved = <<>>
          \/ ~gate.resolved[1].ok
          => AuthGate(gate.allowed) = "null")
    /\ [][~gate.mounted => gate'.allowed = gate.allowed]_vars

\* a token whose expiry is one second away has been verified and the children are
\* shown
C36_VerifiedTokenShown ==
    /\ RendersChildren
    /\ gate.read # <<>>
    /\ gate.read[1].payload.exp = {1}
    /\ gate.resolved = <<[ok |-> TRUE, now |-> SkewSeconds]>>

IsPowerOfTwo(n) == \E k \in 0..(MaxHistory + MaxSeries) : n = Pow2(k)

(* C37: from createNewProblem through any sequence of attempts the interval is 0
   (only when there are no attempts) or a power of two, a non-mastered problem
   has an interval in {0, 1, 2, 4, 8, 16}, mastery is first reached exactly when
   the interval becomes 32, and never with fewer than 6 attempts. *)
C37_IntervalValues ==
    /\ [](\A k \in 1..Len(problems) :
             /\ problems[k].interval = 0 => problems[k].attempts = <<>>
             /\ problems[k].interval = 0 \/ IsPowerOfTwo(problems[k].interval)
             /\ ~problems[k].mastered => problems[k].interval \in {0, 1, 2, 4, 8, 16}
             /\ problems[k].mastered => Len(problems[k].attempts) >= 6)
    /\ [][\A k \in 1..Len(problems) :
             (~problems[k].mastered /\ problems'[k].mastered)
                 => problems'[k].interval = 32]_vars

\* mastery at the sixth attempt, the interval being 32
C37_MasteredAtSixth ==
    /\ problems[1].mastered
    /\ problems[1].interval = 32
    /\ Len(problems[1].attempts) = 6

(* C38: from createNewProblem on, a non-mastered problem has status 'learning'
   exactly when it has 1 attempt and 'reviewing' exactly when it has 2 or more,
   the status is 'mastered' exactly when the mastered flag is set, and the
   status never moves from 'reviewing' back to 'learning'. *)
C38_StatusTracksAttempts ==
    /\ [](\A k \in 1..Len(problems) :
             /\ ~problems[k].mastered =>
                   /\ problems[k].status = "learning" <=> Len(problems[k].attempts) = 1
                   /\ problems[k].status = "reviewing" <=> Len(problems[k].attempts) >= 2
             /\ problems[k].status = "mastered" <=> problems[k].mastered)
    /\ [][\A k \in 1..Len(problems) :
             problems[k].status = "reviewing" => problems'[k].status # "learning"]_vars

\* a problem under review has failed an attempt: interval 1 again, still reviewing
C38_ReviewingAfterFailure ==
    /\ Len(problems[1].attempts) = 3
    /\ ~problems[1].attempts[3].success
    /\ problems[1].interval = 1
    /\ problems[1].status = "reviewing"

\* the last six attempts of the problem were successes rated 0 to 4
SixSuccesses(p) ==
    /\ Len(p.attempts) >= 6
    /\ \A a \in (Len(p.attempts) - 5)..Len(p.attempts) :
          /\ p.attempts[a].success
          /\ p.attempts[a].difficultyRating \in 0..4

(* C39: from any reachable problem state, 6 consecutive attempts with success and
   a rating from 0 to 4 leave the problem mastered, and from then on
   getProblemsDueToday never returns it. *)
C39_SixSuccessesMaster ==
    /\ [](\A k \in 1..Len(problems) :
             /\ SixSuccesses(problems[k]) => problems[k].mastered
             /\ problems[k].mastered =>
                   /\ problems[k].id \notin Ids(getProblemsDueToday(problems, today))
                   /\ dueDay = today => problems[k].id \notin Ids(due))
    /\ [][\A k \in 1..Len(problems) :
             problems[k].mastered => problems'[k].mastered]_vars

\* a new problem has failed once and then succeeded six times, rated 4 each time:
\* it is mastered, and on the next day the due list is empty
C39_MasteredNotReturned ==
    /\ Len(problems[1].attempts) = 7
    /\ problems[1].attempts[1].id > 0
    /\ ~problems[1].attempts[1].success
    /\ SixSuccesses(problems[1])
    /\ \A a \in 2..7 : problems[1].attempts[a].difficultyRating = 4
    /\ problems[1].mastered
    /\ today = 1
    /\ getProblemsDueToday(problems, today) = <<>>

====
